---- MODULE Spec2Model ----
(***************************************************************************)
(* State-machine model of src/backend.js: the Express handlers for signup, *)
(* login, trips and notifications over the three Mongoose collections.     *)
(*                                                                         *)
(* Request bodies are functions whose DOMAIN is the set of fields the      *)
(* client sent, so an absent field (undefined in JavaScript) is a field    *)
(* outside the DOMAIN.  Passwords and bcrypt hashes are sequences of       *)
(* character codes; every other string is a TLA+ string.                   *)
(***************************************************************************)
EXTENDS Integers, Sequences, FiniteSets, TLC

VARIABLES users, trips, notifications, pending, nextId, now, last

vars == <<users, trips, notifications, pending, nextId, now, last>>

(***************************************************************************)
(* Bounds of the model.                                                    *)
(***************************************************************************)
MaxInflight == 2        \* signups between their findOne and their save
MaxIds == 3             \* documents constructed in one behaviour
MaxTicks == 1           \* clock advances in one behaviour

(***************************************************************************)
(* Helpers: JavaScript truthiness of body fields, fresh sequences.         *)
(***************************************************************************)
Opt(f, S) == {<<>>} \cup {f :> v : v \in S}

Has(body, f) == f \in DOMAIN body

\* !body[f] for a string-valued field: undefined or the empty string
FalsyStr(body, f) == ~Has(body, f) \/ body[f] = ""

\* !body[f] for a password (a sequence of character codes)
FalsyChars(body, f) == ~Has(body, f) \/ body[f] = <<>>

\* !body[f] for a number-valued field: undefined or 0
FalsyNum(body, f) == ~Has(body, f) \/ body[f] = 0

Response(status, body) == [status |-> status, body |-> body]

RemoveAt(s, i) == [j \in 1..(Len(s) - 1) |-> IF j < i THEN s[j] ELSE s[j + 1]]

(***************************************************************************)
(* bcryptjs: hash(s, cost) draws a random salt and returns a string that   *)
(* carries the version marker, the cost and the salt in front of the       *)
(* digest; compare(s, hash) re-hashes s with the salt found in hash.       *)
(***************************************************************************)
BcryptCost == 10
BcryptMarker == 36      \* "$"
Salts == {1, 2}

RECURSIVE Mix(_, _)
Mix(s, acc) == IF s = <<>> THEN acc ELSE Mix(Tail(s), (acc * 31 + Head(s)) % 251)

BcryptHash(s, cost, salt) == <<BcryptMarker, cost, salt, Mix(s, salt + cost)>>

HashLen == Len(BcryptHash(<<>>, BcryptCost, 1))

BcryptCompareNoAwait(s, hash) == TRUE

BcryptCompare(s, hash) ==
    IF Len(hash) # HashLen THEN FALSE
    ELSE BcryptHash(s, hash[2], hash[3]) = hash

(***************************************************************************)
(* jsonwebtoken: sign(payload, secret, {expiresIn: "1h"}) adds iat (the    *)
(* clock in seconds) and exp = iat + 3600 to the payload.                  *)
(***************************************************************************)
JwtSecret == "JWT_SECRET"
OneHour == 3600
MsPerSecond == 1000

JwtSign(payload, secret, expiresIn) ==
    LET iat == now \div MsPerSecond
    IN  [payload |-> payload @@ [iat |-> iat, exp |-> iat + expiresIn],
         signedWith |-> secret]

(***************************************************************************)
(* The User collection.  The schema declares email unique, so the          *)
(* collection carries a unique index and an insert of a second document    *)
(* with the same email is rejected with E11000.                            *)
(***************************************************************************)
Emails == {"a@x", "b@x"}
Passwords == {<<>>, <<1>>, <<2>>}

SignupBodies ==
    {f @@ l @@ e @@ p : f \in Opt("firstName", {"", "Ann"}),
                        l \in Opt("lastName", {"Lee"}),
                        e \in Opt("email", Emails),
                        p \in Opt("password", Passwords \ {<<2>>})}

LoginBodies ==
    {e @@ p : e \in Opt("email", Emails), p \in Opt("password", Passwords)}

FindByEmailNone(coll, body) == <<>>

\* User.findOne({ email }): the matching documents, in collection order
FindByEmail(coll, body) ==
    IF Has(body, "email")
    THEN SelectSeq(coll, LAMBDA u : u.email = body.email)
    ELSE <<>>

UserSaveNoIndex(coll, doc) == TRUE

\* newUser.save(): TRUE iff the unique index on email admits the document
UserSave(coll, doc) == \A i \in 1..Len(coll) : coll[i].email # doc.email

NewUserPlain(id, body, hashedPassword) ==
    [id |-> id, firstName |-> body.firstName, lastName |-> body.lastName,
     email |-> body.email, password |-> body.password]

\* new User({ firstName, lastName, email, password: hashedPassword })
NewUser(id, body, hashedPassword) ==
    [id |-> id, firstName |-> body.firstName, lastName |-> body.lastName,
     email |-> body.email, password |-> hashedPassword]

(***************************************************************************)
(* POST /signup, first part: field validation and the findOne pre-check.   *)
(* A request that passes both waits in pending for its hash and save.      *)
(***************************************************************************)
SignupMissing(body) ==
    \/ FalsyStr(body, "firstName") \/ FalsyStr(body, "lastName")
    \/ FalsyStr(body, "email") \/ FalsyChars(body, "password")

SignupCheck(body) ==
    /\ IF SignupMissing(body)
       THEN /\ last' = [op |-> "signup", stage |-> "check", req |-> body, pre |-> users,
                        resp |-> Response(400, [error |-> "All fields are required"])]
            /\ pending' = pending
       ELSE IF FindByEmail(users, body) # <<>>
       THEN /\ last' = [op |-> "signup", stage |-> "check", req |-> body, pre |-> users,
                        resp |-> Response(400, [error |-> "Email already registered"])]
            /\ pending' = pending
       ELSE /\ Len(pending) < MaxInflight
            /\ pending' = Append(pending, body)
            /\ last' = [op |-> "signupCheck", req |-> body, pre |-> users]
    /\ UNCHANGED <<users, trips, notifications, nextId, now>>

(***************************************************************************)
(* POST /signup, second part: bcrypt.hash, new User, save, response.       *)
(***************************************************************************)
SignupSave(i, salt) ==
    /\ i \in 1..Len(pending)
    /\ nextId <= MaxIds
    /\ LET body == pending[i]
           hashedPassword == BcryptHash(body.password, BcryptCost, salt)
           newUser == NewUser(nextId, body, hashedPassword)
       IN  IF UserSave(users, newUser)
           THEN /\ users' = Append(users, newUser)
                /\ last' = [op |-> "signup", stage |-> "save", req |-> body, pre |-> users,
                            resp |-> Response(201, [message |-> "User registered successfully!"])]
           ELSE /\ users' = users
                /\ last' = [op |-> "signup", stage |-> "save", req |-> body, pre |-> users,
                            resp |-> Response(500, [error |-> "Error adding user",
                                                    details |-> "E11000 duplicate key error"])]
    /\ pending' = RemoveAt(pending, i)
    /\ nextId' = nextId + 1
    /\ UNCHANGED <<trips, notifications, now>>

(***************************************************************************)
(* POST /login.  bcrypt.compare rejects a password that is not a string,   *)
(* which the handler's catch turns into a 500.                             *)
(***************************************************************************)
\* { id: user._id, email: user.email }
TokenPayload(coll, user) == [id |-> user.id, email |-> user.email]

LoginResult(coll, body) ==
    LET found == FindByEmail(coll, body)
    IN  IF found = <<>>
        THEN Response(400, [error |-> "User not found"])
        ELSE IF ~Has(body, "password")
        THEN Response(500, [error |-> "Server error",
                            details |-> "Illegal arguments: undefined, string"])
        ELSE IF ~BcryptCompare(body.password, found[1].password)
        THEN Response(400, [error |-> "Invalid credentials"])
        ELSE Response(200, [message |-> "Login successful!",
                            token |-> JwtSign(TokenPayload(coll, found[1]), JwtSecret, OneHour)])

Login(body) ==
    /\ last' = [op |-> "login", req |-> body, pre |-> users,
                resp |-> LoginResult(users, body)]
    /\ UNCHANGED <<users, trips, notifications, pending, nextId, now>>

(***************************************************************************)
(* Mongoose query helpers shared by the Trip and Notification routes.      *)
(* Route ids are <<"oid", n>> for the 24-digit hex string of ObjectId n    *)
(* and <<"str", n>> for a string that is no ObjectId; findByIdAndDelete    *)
(* casts its argument and rejects the second kind with a CastError.        *)
(***************************************************************************)
IdParams == {<<"oid", n>> : n \in 1..MaxIds} \cup {<<"str", 0>>}

IsObjectId(param) == param[1] = "oid"

DeleteByIdAny(coll, param) == IF coll = <<>> THEN coll ELSE Tail(coll)

\* the collection after findByIdAndDelete(param), param being an ObjectId
DeleteById(coll, param) == SelectSeq(coll, LAMBDA d : d.id # param[2])

ScanOrders(coll) ==
    {[i \in 1..Len(coll) |-> coll[f[i]]] :
        f \in {g \in [1..Len(coll) -> 1..Len(coll)] :
                  \A i, j \in 1..Len(coll) : i # j => g[i] # g[j]}}

RECURSIVE InsertPair(_, _)
InsertPair(x, s) ==
    IF s = <<>> THEN <<x>>
    ELSE IF s[1][1] <= x[1] THEN <<s[1]>> \o InsertPair(x, Tail(s))
    ELSE <<x>> \o s

RECURSIVE SortPairs(_)
SortPairs(s) ==
    IF s = <<>> THEN <<>>
    ELSE InsertPair(s[Len(s)], SortPairs(SubSeq(s, 1, Len(s) - 1)))

\* find().sort({ key: dir }) over the documents as the scan delivers them,
\* keys[i] being the sort key of scan[i]
MongoSort(scan, keys, dir) ==
    LET sorted == SortPairs([i \in 1..Len(scan) |-> <<dir * keys[i], scan[i]>>])
    IN  [i \in 1..Len(scan) |-> sorted[i][2]]

(***************************************************************************)
(* The Trip collection and its routes.  The date arrives as a string and   *)
(* the schema casts it to a Date (milliseconds); a string that is no date  *)
(* fails the cast and with it the save.                                    *)
(***************************************************************************)
InvalidDate == -1

CastDate(str) ==
    CASE str = "1970-01-02" -> 86400000
      [] str = "1970-01-03" -> 172800000
      [] str = "1970-01-04" -> 259200000
      [] OTHER -> InvalidDate

TripBodies ==
    {n @@ d @@ b : n \in Opt("name", {"", "Paris"}),
                   d \in Opt("date", {"1970-01-02", "1970-01-03", "1970-01-04", "soon"}),
                   b \in Opt("budget", {0, 100})}

TripMissingNoBudget(body) == FalsyStr(body, "name") \/ FalsyStr(body, "date")

\* !name || !date || !budget
TripMissing(body) ==
    FalsyStr(body, "name") \/ FalsyStr(body, "date") \/ FalsyNum(body, "budget")

\* TripSchema: the three paths are required and date must cast to a Date
TripValid(body) ==
    /\ ~FalsyStr(body, "name")
    /\ Has(body, "date") /\ CastDate(body.date) # InvalidDate
    /\ Has(body, "budget")

\* new Trip({ name, date, budget })
NewTrip(id, body) ==
    [id |-> id, name |-> body.name, date |-> CastDate(body.date), budget |-> body.budget]

AddTrip(body) ==
    /\ IF TripMissing(body)
       THEN /\ last' = [op |-> "addTrip", req |-> body, pre |-> trips,
                        resp |-> Response(400, [error |-> "All fields are required"])]
            /\ UNCHANGED <<trips, nextId>>
       ELSE /\ nextId <= MaxIds
            /\ nextId' = nextId + 1
            /\ IF TripValid(body)
               THEN /\ trips' = Append(trips, NewTrip(nextId, body))
                    /\ last' = [op |-> "addTrip", req |-> body, pre |-> trips,
                                resp |-> Response(201, [message |-> "Trip added successfully!",
                                                        trip |-> NewTrip(nextId, body)])]
               ELSE /\ trips' = trips
                    /\ last' = [op |-> "addTrip", req |-> body, pre |-> trips,
                                resp |-> Response(500, [error |-> "Error adding trip"])]
    /\ UNCHANGED <<users, notifications, pending, now>>

ListTripsUnsorted(scan) == scan

\* Trip.find().sort({ date: 1 })
ListTripsResult(scan) == MongoSort(scan, [i \in 1..Len(scan) |-> scan[i].date], 1)

ListTrips ==
    /\ \E scan \in ScanOrders(trips) :
          last' = [op |-> "listTrips", pre |-> trips,
                   resp |-> Response(200, ListTripsResult(scan))]
    /\ UNCHANGED <<users, trips, notifications, pending, nextId, now>>

DeleteTrip(param) ==
    /\ IF IsObjectId(param)
       THEN /\ trips' = DeleteById(trips, param)
            /\ last' = [op |-> "deleteTrip", req |-> param,
                        pre |-> trips, preOther |-> notifications,
                        resp |-> Response(200, [message |-> "Trip deleted successfully!"])]
       ELSE /\ trips' = trips
            /\ last' = [op |-> "deleteTrip", req |-> param,
                        pre |-> trips, preOther |-> notifications,
                        resp |-> Response(500, [error |-> "Error deleting trip"])]
    /\ UNCHANGED <<users, notifications, pending, nextId, now>>

(***************************************************************************)
(* The Notification collection and its routes.  createdAt defaults to      *)
(* Date.now() when the document is constructed.                            *)
(***************************************************************************)
NotificationBodies ==
    {m @@ t : m \in Opt("message", {"", "hello"}), t \in Opt("type", {"", "info"})}

\* !message || !type
NotificationMissing(body) == FalsyStr(body, "message") \/ FalsyStr(body, "type")

\* new Notification({ message, type })
NewNotification(id, body) ==
    [id |-> id, message |-> body.message, type |-> body.type, createdAt |-> now]

AddNotification(body) ==
    /\ IF NotificationMissing(body)
       THEN /\ last' = [op |-> "addNotification", req |-> body, pre |-> notifications,
                        resp |-> Response(400, [error |-> "Message and type are required"])]
            /\ UNCHANGED <<notifications, nextId>>
       ELSE /\ nextId <= MaxIds
            /\ nextId' = nextId + 1
            /\ notifications' = Append(notifications, NewNotification(nextId, body))
            /\ last' = [op |-> "addNotification", req |-> body, pre |-> notifications,
                        resp |-> Response(201, [message |-> "Notification added successfully!",
                                                notification |-> NewNotification(nextId, body)])]
    /\ UNCHANGED <<users, trips, pending, now>>

\* Notification.find().sort({ createdAt: -1 })
ListNotificationsResult(scan) == MongoSort(scan, [i \in 1..Len(scan) |-> scan[i].createdAt], -1)

ListNotifications ==
    /\ \E scan \in ScanOrders(notifications) :
          last' = [op |-> "listNotifications", pre |-> notifications,
                   resp |-> Response(200, ListNotificationsResult(scan))]
    /\ UNCHANGED <<users, trips, notifications, pending, nextId, now>>

DeleteNotification(param) ==
    /\ IF IsObjectId(param)
       THEN /\ notifications' = DeleteById(notifications, param)
            /\ last' = [op |-> "deleteNotification", req |-> param,
                        pre |-> notifications, preOther |-> trips,
                        resp |-> Response(200, [message |-> "Notification deleted successfully!"])]
       ELSE /\ notifications' = notifications
            /\ last' = [op |-> "deleteNotification", req |-> param,
                        pre |-> notifications, preOther |-> trips,
                        resp |-> Response(500, [error |-> "Error deleting notification"])]
    /\ UNCHANGED <<users, trips, pending, nextId, now>>

(***************************************************************************)
(* The clock read by Date.now() and by jsonwebtoken.                       *)
(***************************************************************************)
Tick(d) ==
    /\ now + d <= MaxTicks * d
    /\ now' = now + d
    /\ UNCHANGED <<users, trips, notifications, pending, nextId, last>>

Init ==
    /\ users = <<>>
    /\ trips = <<>>
    /\ notifications = <<>>
    /\ pending = <<>>
    /\ nextId = 1
    /\ now = 0
    /\ last = [op |-> "none"]

NextAuth ==
    \/ \E body \in SignupBodies : SignupCheck(body)
    \/ \E i \in 1..MaxInflight, salt \in Salts : SignupSave(i, salt)
    \/ \E body \in LoginBodies : Login(body)
    \/ Tick(MsPerSecond)

SpecAuth == Init /\ [][NextAuth]_vars

NextResources ==
    \/ \E body \in TripBodies : AddTrip(body)
    \/ ListTrips
    \/ \E param \in IdParams : DeleteTrip(param)
    \/ \E body \in NotificationBodies : AddNotification(body)
    \/ ListNotifications
    \/ \E param \in IdParams : DeleteNotification(param)
    \/ Tick(1)

SpecResources == Init /\ [][NextResources]_vars

(***************************************************************************)
(* Properties of signup and login, checked under SpecAuth.                 *)
(***************************************************************************)
EmailStored(coll, body) ==
    Has(body, "email") /\ \E i \in 1..Len(coll) : coll[i].email = body.email

OthersPresent(body) ==
    /\ Has(body, "firstName") /\ body.firstName # ""
    /\ Has(body, "lastName") /\ body.lastName # ""
    /\ Has(body, "password") /\ body.password # <<>>

AllPresent(body) == OthersPresent(body) /\ Has(body, "email") /\ body.email # ""

ConflictResponse == Response(400, [error |-> "Email already registered"])

\* last is the outcome of the validation and pre-check part of a signup
AtSignupCheck ==
    \/ last.op = "signupCheck"
    \/ last.op = "signup" /\ last.stage = "check"

\* C1: in every reachable state, whatever the interleaving of the pre-checks
\* and saves of concurrent signups, no two stored users have the same email.
C1_UniqueEmail ==
    \A i, j \in 1..Len(users) : i # j => users[i].email # users[j].email

\* two signups with one email both passed the pre-check; the second save lost
C1_Witness ==
    /\ last.op = "signup" /\ last.stage = "save" /\ last.resp.status = 500
    /\ EmailStored(users, last.req)

\* C2 as stated: a signup whose email is already stored gets the conflict
\* error and adds no user, for every value of the other three fields.
C2_Original ==
    (AtSignupCheck /\ EmailStored(last.pre, last.req))
        => /\ last.op = "signup"
           /\ last.resp = ConflictResponse
           /\ users = last.pre

\* C2 amended: a signup whose email is already stored and whose firstName,
\* lastName and password are all present and non-empty gets the conflict
\* error and adds no user.
C2_Conflict ==
    (AtSignupCheck /\ EmailStored(last.pre, last.req) /\ OthersPresent(last.req))
        => /\ last.op = "signup"
           /\ last.resp = ConflictResponse
           /\ users = last.pre

C2_Witness ==
    /\ last.op = "signup" /\ last.stage = "check"
    /\ EmailStored(last.pre, last.req) /\ OthersPresent(last.req)
    /\ last.resp.status = 400

\* the user a successful signup of last.req must have appended to last.pre
SignupStored ==
    /\ last.resp = Response(201, [message |-> "User registered successfully!"])
    /\ Len(users) = Len(last.pre) + 1
    /\ SubSeq(users, 1, Len(last.pre)) = last.pre
    /\ LET u == users[Len(users)]
       IN  /\ u.email = last.req.email
           /\ u.firstName = last.req.firstName
           /\ u.lastName = last.req.lastName
           /\ u.password # last.req.password
           /\ Len(u.password) = HashLen
           /\ u.password = BcryptHash(last.req.password, BcryptCost, u.password[3])

LoginOutcome ==
    LET m == {i \in 1..Len(last.pre) : Has(last.req, "email")
                                       /\ last.pre[i].email = last.req.email}
    IN  /\ users = last.pre
        /\ IF m = {}
           THEN last.resp = Response(400, [error |-> "User not found"])
           ELSE LET u == last.pre[CHOOSE i \in m : TRUE]
                IN  IF ~(/\ Has(last.req, "password")
                         /\ Len(u.password) = HashLen
                         /\ BcryptHash(last.req.password, u.password[2], u.password[3])
                                = u.password)
                    THEN last.resp = Response(400, [error |-> "Invalid credentials"])
                    ELSE /\ last.resp.status = 200
                         /\ Cardinality(m) = 1
                         /\ DOMAIN last.resp.body = {"message", "token"}
                         /\ LET p == last.resp.body.token.payload
                            IN  /\ DOMAIN p = {"id", "email", "iat", "exp"}
                                /\ p.id = u.id
                                /\ p.email = u.email
                                /\ p.exp = p.iat + 3600

\* C4 as stated: every login request gets not-found, invalid-credentials or
\* the token of the user with that email, and leaves the store unchanged.
C4_Original == last.op = "login" => LoginOutcome

\* C4 amended: every login request that carries a password gets the
\* not-found error when no stored user has the email, the
\* invalid-credentials error when the password does not match the stored
\* hash, and otherwise a token whose payload is the id and email of that
\* user with exp one hour after iat; the store is unchanged in all cases.
C4_Login == (last.op = "login" /\ Has(last.req, "password")) => LoginOutcome

C4_Witness ==
    /\ last.op = "login" /\ last.resp.status = 200
    /\ Len(users) = 2
    /\ last.req.email = users[2].email
    /\ now > 0

\* C5: a login that fails because the password is wrong gets the same
\* response as the same login against a store where the email is not
\* registered (the empty store).
C5_FailureIndistinguishable ==
    (last.op = "login" /\ last.resp.status = 400 /\ EmailStored(last.pre, last.req))
        => last.resp = LoginResult(<<>>, last.req)

(***************************************************************************)
(* Properties of the trip and notification routes, checked under           *)
(* SpecResources.                                                          *)
(***************************************************************************)
\* every document of the store occurs exactly once in the listing
SameDocuments(listing, coll) ==
    /\ Len(listing) = Len(coll)
    /\ \A i \in 1..Len(coll) :
          Cardinality({j \in 1..Len(listing) : listing[j] = coll[i]}) = 1

\* C6: after any sequence of addTrip and deleteTrip, listTrips returns
\* exactly the stored trips, each once, in ascending order of date (the
\* empty sequence when none is stored).
C6_ListTrips ==
    last.op = "listTrips"
        => /\ last.resp.status = 200
           /\ trips = last.pre
           /\ SameDocuments(last.resp.body, trips)
           /\ \A i, j \in 1..Len(last.resp.body) :
                 i < j => last.resp.body[i].date <= last.resp.body[j].date

\* three trips inserted in the date order D3, D1, D2 and listed D1, D2, D3
C6_Witness ==
    /\ last.op = "listTrips"
    /\ Len(trips) = 3
    /\ trips[1].date > trips[3].date
    /\ trips[3].date > trips[2].date
    /\ last.resp.body = <<trips[2], trips[3], trips[1]>>

\* C7: of two stored notifications, the one added later is listed first.
\* Adds are atomic here, so the later add is the one with the larger id.
C7_MostRecentFirst ==
    last.op = "listNotifications"
        => \A i, j \in 1..Len(last.resp.body) :
              i < j => last.resp.body[i].id > last.resp.body[j].id

\* the outcome of a delete whose id matches no stored document
DeleteMissed ==
    /\ last.resp.status = 200
    /\ last.resp.body = [message |->
          IF last.op = "deleteTrip" THEN "Trip deleted successfully!"
          ELSE "Notification deleted successfully!"]
    /\ IF last.op = "deleteTrip"
       THEN trips = last.pre /\ notifications = last.preOther
       ELSE notifications = last.pre /\ trips = last.preOther

\* C8 as stated: a delete with any id that matches no stored record answers
\* 200 with the deleted message and leaves both stores unchanged.
C8_Original ==
    (/\ last.op \in {"deleteTrip", "deleteNotification"}
     /\ \A i \in 1..Len(last.pre) : <<"oid", last.pre[i].id>> # last.req)
        => DeleteMissed

\* C8 amended: a delete with any id that is a well-formed ObjectId and
\* matches no stored record answers 200 with the deleted message and leaves
\* both stores unchanged.
C8_DeleteMissing ==
    (/\ last.op \in {"deleteTrip", "deleteNotification"}
     /\ last.req[1] = "oid"
     /\ \A i \in 1..Len(last.pre) : last.pre[i].id # last.req[2])
        => DeleteMissed

\* a delete by the id of a notification, sent to the trip route
C8_Witness ==
    /\ last.op = "deleteTrip"
    /\ last.resp.status = 200
    /\ Len(trips) >= 1
    /\ \E i \in 1..Len(notifications) : last.req = <<"oid", notifications[i].id>>

\* C9: addTrip without name, date or budget, and addNotification without
\* message or type, answer 400 and leave the store unchanged.
C9_MissingField ==
    /\ (last.op = "addTrip" /\ {"name", "date", "budget"} \ DOMAIN last.req # {})
          => /\ last.resp = Response(400, [error |-> "All fields are required"])
             /\ trips = last.pre
    /\ (last.op = "addNotification" /\ {"message", "type"} \ DOMAIN last.req # {})
          => /\ last.resp = Response(400, [error |-> "Message and type are required"])
             /\ notifications = last.pre

C9_Witness ==
    /\ last.op = "addTrip"
    /\ DOMAIN last.req = {"name", "date"}
    /\ last.req.name # "" /\ CastDate(last.req.date) # InvalidDate
    /\ Len(trips) >= 1
    /\ Len(notifications) >= 1

\* C10: whenever name, date and budget are all present (a non-empty name, a
\* date that parses, any numeric budget, 0 included), addTrip stores exactly
\* one new trip with those values and returns it with its id and 201.
C10_AddTrip ==
    (/\ last.op = "addTrip"
     /\ DOMAIN last.req = {"name", "date", "budget"}
     /\ last.req.name # ""
     /\ last.req.date \in {"1970-01-02", "1970-01-03", "1970-01-04"})
        => /\ last.resp.status = 201
           /\ Len(trips) = Len(last.pre) + 1
           /\ SubSeq(trips, 1, Len(last.pre)) = last.pre
           /\ trips[Len(trips)].name = last.req.name
           /\ trips[Len(trips)].budget = last.req.budget
           /\ last.resp.body.trip = trips[Len(trips)]

====
